---- MODULE Spec2Model ----
(***************************************************************************)
(* tcp_probe_plus: the flow table, the sampling hooks, the purge timer and *)
(* the record ring of src/jprobe.c, as a state machine.                    *)
(*                                                                         *)
(* Execution contexts (the CPUs that run a hook) interleave at the places  *)
(* where the C code reads the clock, reads tcp_probe.lastcwnd without a    *)
(* lock, and takes or releases a spinlock.  Everything a context does      *)
(* between two such places is one step.                                    *)
(*                                                                         *)
(* Time is ktime in milliseconds.  A 32-bit sequence number is kept in     *)
(* SeqBits bits (TLC's integers are 32-bit): UINT32_MAX is the largest     *)
(* value of that width.                                                    *)
(***************************************************************************)
EXTENDS Integers, Sequences, FiniteSets, TLC

VARIABLES
    now,                \* ktime_get(), in ms
    full,               \* module parameter: full-capture mode
    maxflows,           \* module parameter: 0 = unlimited
    bufsize,            \* module parameter, a power of two after start-up
    tcp_hash,           \* the hash table: tuple id -> struct tcp_hash_flow
    tcp_flow_list,      \* LIST_HEAD(tcp_flow_list): tuple ids, newest first
    flow_count,         \* atomic_t flow_count
    tcp_hash_lock,      \* 0 = free, else the holder
    probe_lock,         \* tcp_probe.lock: 0 = free, else the holder
    log,                \* tcp_probe.log[0 .. bufsize-1]
    head,               \* tcp_probe.head
    tail,               \* tcp_probe.tail
    lastcwnd,           \* tcp_probe.lastcwnd
    ack_drop_purge,     \* TCPPROBE_STAT counters, summed over the CPUs
    ack_drop_ring_full,
    conn_maxflow_limit,
    reset_flows,
    ctx,                \* per execution context: where its hook stands, its locals
    purge,              \* the purge timer's handler: pc and tstamp
    timer_expires,      \* purge_timer: -1 = not pending, else the expiry time
    reader,             \* the consumer of the ring: "idle" or "reading"
    nevents,            \* history: hook invocations so far
    pushed,             \* history: every record handed to write_flow, in order
    life                \* the module's life: where tcpprobe_init or tcpprobe_exit
                        \* stands, and what is allocated, registered or armed

vars == <<now, full, maxflows, bufsize, tcp_hash, tcp_flow_list, flow_count,
          tcp_hash_lock, probe_lock, log, head, tail, lastcwnd,
          ack_drop_purge, ack_drop_ring_full, conn_maxflow_limit, reset_flows,
          ctx, purge, timer_expires, reader, nevents, pushed, life>>

cfgvars == <<full, maxflows, bufsize>>
tablevars == <<tcp_hash, tcp_flow_list, flow_count>>
ringvars == <<log, head, lastcwnd, ack_drop_ring_full>>
statvars == <<ack_drop_purge, conn_maxflow_limit, reset_flows>>

----------------------------------------------------------------------------
(* Bounds of the model *)

MaxTick == 2
MaxEvents == 3
SeqBits == 16

(* Program constants *)

MSEC_PER_SEC == 1000
port == 0
probetime == 2
purgetime == 1

UINT32_MAX == 2 ^ SeqBits - 1
UINT16_MAX == 2 ^ 16 - 1

(* The inputs the event source delivers *)

Ctxs == {1, 2}
PURGE == Cardinality(Ctxs) + 1
READER == Cardinality(Ctxs) + 2

Tuple == <<[saddr |-> 1, daddr |-> 2, sport |-> 5001, dport |-> 80],
           [saddr |-> 2, daddr |-> 1, sport |-> 80, dport |-> 5001]>>
Tuples == DOMAIN Tuple
SndNxtVals == {100, 5100}
CwndVals == {10, 20}
LenVals == {1000}
\* the instants the clock is read at: a few ms after start-up, and one purge
\* period after it
Times == 0 .. MaxTick \cup {MSEC_PER_SEC * purgetime}

----------------------------------------------------------------------------
(* Pure helpers *)

RECURSIVE roundup_pow_of_two(_)
roundup_pow_of_two(n) == IF n <= 1 THEN 1 ELSE 2 * roundup_pow_of_two((n + 1) \div 2)

\* x & (bufsize - 1), bufsize a power of two
and_mask(x, size) == x % size

port_match(t) ==
    port = 0 \/ Tuple[t].dport = port \/ Tuple[t].sport = port

\* mutant: the window is not looked at
cwnd_gate_open(snd_cwnd) == TRUE

\* full || tp->snd_cwnd != tcp_probe.lastcwnd
cwnd_gate(snd_cwnd) == full \/ snd_cwnd # lastcwnd

tcp_flow_find(t) == IF t \in DOMAIN tcp_hash THEN t ELSE 0

\* mutant: the bound compared with > instead of >=
admission_full_gt == maxflows > 0 /\ flow_count > maxflows

admission_full == maxflows > 0 /\ flow_count >= maxflows

\* mutant: the interval one millisecond short
interval_elapsed_early(tstamp, flow_tstamp) ==
    LET diff == tstamp - flow_tstamp
    IN  IF diff < 0 THEN TRUE ELSE diff >= probetime - 1

\* milliseconds >= probetime, milliseconds an unsigned 64-bit count of
\* tstamp - tcp_flow->tstamp: a negative difference converts to a huge one
interval_elapsed(tstamp, flow_tstamp) ==
    LET diff == tstamp - flow_tstamp
    IN  IF diff < 0 THEN TRUE ELSE diff >= probetime

\* mutant: the difference taken without the rollover branch
bytes_delta_nowrap(last, new) == new - last

\* what one update adds to cumulative_bytes
bytes_delta(last, new) ==
    IF new > last THEN new - last
    ELSE IF new # last THEN (UINT32_MAX - last) + new
    ELSE 0

\* mutant: > instead of >=
purge_due_gt(tstamp, flow_tstamp) ==
    LET diff == tstamp - flow_tstamp
    IN  diff >= 0 /\ diff \div MSEC_PER_SEC > purgetime

\* tv.tv_sec >= purgetime, tv the signed difference in whole seconds
purge_due(tstamp, flow_tstamp) ==
    LET diff == tstamp - flow_tstamp
        tv_sec == IF diff >= 0 THEN diff \div MSEC_PER_SEC
                  ELSE -((-diff + MSEC_PER_SEC - 1) \div MSEC_PER_SEC)
    IN  tv_sec >= purgetime

tcp_probe_used == and_mask(head - tail + bufsize, bufsize)
tcp_probe_avail == bufsize - tcp_probe_used

\* a struct tcp_log of the zeroed array: the fields the hooks compute (the
\* others are copies of the socket's own fields)
ZeroLog == [tuple |-> 0, length |-> 0, snd_nxt |-> 0, snd_cwnd |-> 0,
            socket_idf |-> 0]

\* a hook's locals; created, prev and stamp are history: whether this hook
\* created its flow, the flow as the hook found it, and the rank of this
\* hook's event among the flow's events that decided, under the table lock, to
\* write a record
NoFlow == [tstamp |-> 0, first_seq_num |-> 0, last_seq_num |-> 0,
           cumulative_bytes |-> 0, nrec |-> 0, emitted |-> 0, obs_ts |-> 0, obs_cwnd |-> 0,
           nproc |-> 0]

IdleCtx == [pc |-> "idle", tuple |-> 0, snd_nxt |-> 0, snd_cwnd |-> 0,
            length |-> 0, tstamp |-> 0, tcp_flow |-> 0, cumulative_bytes |-> 0,
            created |-> FALSE, prev |-> NoFlow, stamp |-> 0]

----------------------------------------------------------------------------
(* The module's life *)

\* what tcpprobe_init creates, in the order it creates it
InitSeq == <<"tcp_hash", "tcp_flow_cachep", "purge_timer", "sysctl", "proc_stat",
             "log", "proc_tcpprobe", "tcp_jprobe", "tcp_jprobe_done">>

\* what the error labels of tcpprobe_init release, from err_tcpdone down to
\* err_free_hash
UnwindSeq == <<"tcp_jprobe", "proc_tcpprobe", "proc_stat", "sysctl", "purge_timer",
               "log", "tcp_flow_cachep", "tcp_hash">>

\* the place in UnwindSeq of the label each failing step jumps to (err itself
\* is past the end)
UnwindFrom == [tcp_hash |-> Len(UnwindSeq) + 1,
               tcp_flow_cachep |-> Len(UnwindSeq),
               sysctl |-> Len(UnwindSeq) - 3,
               proc_stat |-> Len(UnwindSeq) - 4,
               log |-> Len(UnwindSeq) - 5,
               proc_tcpprobe |-> Len(UnwindSeq) - 5,
               tcp_jprobe |-> Len(UnwindSeq) - 6,
               tcp_jprobe_done |-> Len(UnwindSeq) - 7]

\* mutant: the flows are purged after their cache is destroyed
ExitSeq_late == <<"proc_tcpprobe", "proc_stat", "sysctl", "tcp_jprobe", "tcp_jprobe_done",
                  "log", "purge_timer", "tcp_flow_cachep", "flows", "tcp_hash">>

\* what tcpprobe_exit releases, in the order it releases it ("flows" is
\* purge_all_flows)
ExitSeq == <<"proc_tcpprobe", "proc_stat", "sysctl", "tcp_jprobe", "tcp_jprobe_done",
             "log", "purge_timer", "flows", "tcp_flow_cachep", "tcp_hash">>

\* -ENOMEM and -EINVAL, as the return value of tcpprobe_init
ENOMEM == 12
EINVAL == 22

\* the module before tcpprobe_init, and after it has returned 0; freed is
\* history: what was released, in order
Unloaded == [pc |-> "init", k |-> 0, res |-> {}, ret |-> 0, freed |-> <<>>]
Loaded == [pc |-> "running", k |-> 0,
           res |-> {InitSeq[i] : i \in DOMAIN InitSeq}, ret |-> 0, freed |-> <<>>]

----------------------------------------------------------------------------
(* Start-up *)

InitWith(f, m, b) ==
    /\ now = 0
    /\ full = f
    /\ maxflows = m
    /\ bufsize = roundup_pow_of_two(b)
    /\ tcp_hash = <<>>
    /\ tcp_flow_list = <<>>
    /\ flow_count = 0
    /\ tcp_hash_lock = 0
    /\ probe_lock = 0
    /\ log = [i \in 0 .. roundup_pow_of_two(b) - 1 |-> ZeroLog]
    /\ head = 0
    /\ tail = 0
    /\ lastcwnd = 0
    /\ ack_drop_purge = 0
    /\ ack_drop_ring_full = 0
    /\ conn_maxflow_limit = 0
    /\ reset_flows = 0
    /\ ctx = [c \in Ctxs |-> IdleCtx]
    /\ purge = [pc |-> "idle", tstamp |-> 0]
    /\ timer_expires = 0 + MSEC_PER_SEC * purgetime
    /\ reader = "idle"
    /\ nevents = 0
    /\ pushed = <<>>
    /\ life = Loaded

\* the module parameters the model is loaded with: full, maxflows, bufsize
Configs == {<<FALSE, 1, 3>>, <<TRUE, 1, 2>>, <<FALSE, 0, 3>>}

Init == \E cf \in Configs : InitWith(cf[1], cf[2], cf[3])


----------------------------------------------------------------------------
(* The flow table's helpers *)

\* the struct tcp_hash_flow that init_tcp_hash_flow returns: zeroed, stamped.
\* nrec, emitted, obs_ts and obs_cwnd are history: the records handed to
\* write_flow for this flow state and the cumulative_bytes of the last one; the
\* latest tstamp, and the snd_cwnd, of the observations processed for it;
\* nproc is history too: the events that decided to write a record for it
zeroed_flow(tstamp) ==
    [tstamp |-> tstamp, first_seq_num |-> 0, last_seq_num |-> 0,
     cumulative_bytes |-> 0, nrec |-> 0, emitted |-> 0, obs_ts |-> 0, obs_cwnd |-> 0,
     nproc |-> 0]

\* mutant: first_seq_num is not recorded
new_flow_noseq(tstamp, snd_nxt) == zeroed_flow(tstamp)

\* the new flow as jtcp_rcv_established sets it up before the byte update
new_flow(tstamp, snd_nxt) ==
    [zeroed_flow(tstamp) EXCEPT !.first_seq_num = snd_nxt, !.tstamp = tstamp]

\* history: an observation at tstamp with snd_cwnd was processed for the flow
observed(flow, tstamp, snd_cwnd) ==
    [flow EXCEPT !.obs_ts = IF tstamp > @ THEN tstamp ELSE @, !.obs_cwnd = snd_cwnd]

\* init_tcp_hash_flow links the flow into its bucket and at the head of
\* tcp_flow_list and counts it; flow is the struct as the hook leaves it
init_tcp_hash_flow(t, flow) ==
    /\ tcp_hash' = tcp_hash @@ (t :> flow)
    /\ tcp_flow_list' = <<t>> \o tcp_flow_list
    /\ flow_count' = flow_count + 1

\* mutant: list_del without hlist_del
remove_flows_listonly(gone) ==
    /\ tcp_hash' = tcp_hash
    /\ tcp_flow_list' = SelectSeq(tcp_flow_list, LAMBDA t : t \notin gone)
    /\ flow_count' = flow_count - Cardinality(gone)

\* hlist_del, list_del, tcp_hash_flow_free of every flow in gone
remove_flows(gone) ==
    /\ tcp_hash' = [t \in DOMAIN tcp_hash \ gone |-> tcp_hash[t]]
    /\ tcp_flow_list' = SelectSeq(tcp_flow_list, LAMBDA t : t \notin gone)
    /\ flow_count' = flow_count - Cardinality(gone)

\* history: one more event of the flow has decided to write a record
ranked(flow) == [flow EXCEPT !.nproc = @ + 1]

\* the update of cumulative_bytes and last_seq_num from tp->snd_nxt
update_bytes(flow, snd_nxt) ==
    [flow EXCEPT !.cumulative_bytes = @ + bytes_delta(flow.last_seq_num, snd_nxt),
                 !.last_seq_num = snd_nxt]

\* mutant: no slot kept in reserve
ring_has_room_any == tcp_probe_avail > 0

\* tcp_probe_avail() > 1
ring_has_room == tcp_probe_avail > 1

\* mutant: the record is stored whatever the room
write_flow_always(tuple, tp, cumulative_bytes, length, first_seq_seen) ==
    LET p == [tuple |-> tuple,
              length |-> length,
              snd_nxt |-> cumulative_bytes,
              snd_cwnd |-> tp,
              socket_idf |-> first_seq_seen]
    IN  /\ log' = [log EXCEPT ![head] = p]
        /\ head' = and_mask(head + 1, bufsize)
        /\ UNCHANGED ack_drop_ring_full
        /\ lastcwnd' = tp
        /\ pushed' = Append(pushed, p)

\* write_flow, called with tcp_probe.lock held (tp is the socket's snd_cwnd)
write_flow(tuple, tp, cumulative_bytes, length, first_seq_seen) ==
    LET p == [tuple |-> tuple,
              length |-> length,
              snd_nxt |-> cumulative_bytes,
              snd_cwnd |-> tp,
              socket_idf |-> first_seq_seen]
    IN  /\ IF ring_has_room
           THEN /\ log' = [log EXCEPT ![head] = p]
                /\ head' = and_mask(head + 1, bufsize)
                /\ UNCHANGED ack_drop_ring_full
           ELSE /\ ack_drop_ring_full' = ack_drop_ring_full + 1
                /\ UNCHANGED <<log, head>>
        /\ lastcwnd' = tp
        /\ pushed' = Append(pushed, p)

\* history: the flow remembers the cumulative_bytes of the record just handed
\* to write_flow
note_emitted(c) ==
    tcp_hash' = [tcp_hash EXCEPT ![ctx[c].tcp_flow].emitted = ctx[c].cumulative_bytes,
                                 ![ctx[c].tcp_flow].nrec = @ + 1]

Return(c) == ctx' = [ctx EXCEPT ![c] = IdleCtx]
Goto(c, pc) == ctx' = [ctx EXCEPT ![c].pc = pc]

\* a hook starts on the lowest context that is free
MayEnter(c) ==
    /\ ctx[c].pc = "idle"
    /\ \A d \in Ctxs : d < c => ctx[d].pc # "idle"
    /\ nevents < MaxEvents

----------------------------------------------------------------------------
(* jtcp_rcv_established *)

rcv_Entry(c, t, snd_nxt, snd_cwnd, len) ==
    /\ MayEnter(c)
    /\ ctx' = [ctx EXCEPT ![c] = [IdleCtx EXCEPT !.pc = "r_gate", !.tuple = t,
                                    !.snd_nxt = snd_nxt, !.snd_cwnd = snd_cwnd,
                                    !.length = len, !.tstamp = now]]
    /\ nevents' = nevents + 1
    /\ UNCHANGED <<life, now, cfgvars, tablevars, tcp_hash_lock, probe_lock, ringvars, tail,
                   statvars, purge, timer_expires, reader, pushed>>

rcv_Gate(c) ==
    /\ ctx[c].pc = "r_gate"
    /\ IF port_match(ctx[c].tuple) /\ cwnd_gate(ctx[c].snd_cwnd)
       THEN Goto(c, "r_trylock")
       ELSE Return(c)
    /\ UNCHANGED <<life, now, cfgvars, tablevars, tcp_hash_lock, probe_lock, ringvars, tail,
                   statvars, purge, timer_expires, reader, nevents, pushed>>

\* mutant: the skipped event is not counted
rcv_Skip_uncounted(c) ==
    /\ ctx[c].pc = "r_trylock"
    /\ tcp_hash_lock # 0
    /\ Return(c)
    /\ UNCHANGED <<life, now, cfgvars, tablevars, tcp_hash_lock, probe_lock, ringvars, tail,
                   statvars, purge, timer_expires, reader, nevents, pushed>>

\* spin_trylock fails
rcv_Skip(c) ==
    /\ ctx[c].pc = "r_trylock"
    /\ tcp_hash_lock # 0
    /\ ack_drop_purge' = ack_drop_purge + 1
    /\ Return(c)
    /\ UNCHANGED <<life, now, cfgvars, tablevars, tcp_hash_lock, probe_lock, ringvars, tail,
                   conn_maxflow_limit, reset_flows, purge, timer_expires, reader,
                   nevents, pushed>>

\* the flow is not in the table and the table is full
rcv_Reject(c) ==
    /\ ctx[c].pc = "r_trylock"
    /\ tcp_hash_lock = 0
    /\ tcp_flow_find(ctx[c].tuple) = 0
    /\ admission_full
    /\ tcp_hash_lock' = c
    /\ conn_maxflow_limit' = conn_maxflow_limit + 1
    /\ Goto(c, "r_unlock")
    /\ UNCHANGED <<life, now, cfgvars, tablevars, probe_lock, ringvars, tail,
                   ack_drop_purge, reset_flows, purge, timer_expires, reader,
                   nevents, pushed>>

\* mutant: the flow is created, and its record written, without the table lock
rcv_Create_unlocked(c) ==
    LET t == ctx[c].tuple IN
    /\ ctx[c].pc = "r_trylock"
    /\ tcp_hash_lock = 0
    /\ tcp_flow_find(t) = 0
    /\ ~admission_full
    /\ LET flow == new_flow(ctx[c].tstamp, ctx[c].snd_nxt)
           upd == ranked(update_bytes(observed(flow, ctx[c].tstamp, ctx[c].snd_cwnd),
                                      ctx[c].snd_nxt))
       IN  /\ init_tcp_hash_flow(t, upd)
           /\ ctx' = [ctx EXCEPT ![c].pc = "r_ringlock", ![c].tcp_flow = t,
                                 ![c].created = TRUE,
                                 ![c].cumulative_bytes = upd.cumulative_bytes,
                                 ![c].stamp = upd.nproc]
    /\ UNCHANGED <<life, now, cfgvars, tcp_hash_lock, probe_lock, ringvars, tail, statvars, purge,
                   timer_expires, reader, nevents, pushed>>

\* the flow is not in the table and is admitted
rcv_Create(c) ==
    LET t == ctx[c].tuple IN
    /\ ctx[c].pc = "r_trylock"
    /\ tcp_hash_lock = 0
    /\ tcp_flow_find(t) = 0
    /\ ~admission_full
    /\ tcp_hash_lock' = c
    /\ LET flow == new_flow(ctx[c].tstamp, ctx[c].snd_nxt)
           upd == ranked(update_bytes(observed(flow, ctx[c].tstamp, ctx[c].snd_cwnd),
                                      ctx[c].snd_nxt))
       IN  /\ init_tcp_hash_flow(t, upd)
           /\ ctx' = [ctx EXCEPT ![c].pc = "r_ringlock", ![c].tcp_flow = t,
                                 ![c].created = TRUE,
                                 ![c].cumulative_bytes = upd.cumulative_bytes,
                                 ![c].stamp = upd.nproc]
    /\ UNCHANGED <<life, now, cfgvars, probe_lock, ringvars, tail, statvars, purge,
                   timer_expires, reader, nevents, pushed>>

\* mutant: the byte update is made whether or not a record is written
rcv_Update_always(c) ==
    LET t == ctx[c].tuple IN
    /\ ctx[c].pc = "r_trylock"
    /\ tcp_hash_lock = 0
    /\ tcp_flow_find(t) # 0
    /\ tcp_hash_lock' = c
    /\ LET seen == observed(tcp_hash[t], ctx[c].tstamp, ctx[c].snd_cwnd) IN
       IF interval_elapsed(ctx[c].tstamp, tcp_hash[t].tstamp)
       THEN LET upd == ranked(update_bytes([seen EXCEPT !.tstamp = ctx[c].tstamp],
                                           ctx[c].snd_nxt))
            IN  /\ tcp_hash' = [tcp_hash EXCEPT ![t] = upd]
                /\ ctx' = [ctx EXCEPT ![c].pc = "r_ringlock", ![c].tcp_flow = t,
                                      ![c].cumulative_bytes = upd.cumulative_bytes,
                                      ![c].prev = tcp_hash[t],
                                      ![c].stamp = upd.nproc]
       ELSE /\ tcp_hash' = [tcp_hash EXCEPT ![t] = update_bytes(seen, ctx[c].snd_nxt)]
            /\ ctx' = [ctx EXCEPT ![c].pc = "r_unlock", ![c].tcp_flow = t,
                                  ![c].prev = tcp_hash[t]]
    /\ UNCHANGED <<life, now, cfgvars, tcp_flow_list, flow_count, probe_lock, ringvars, tail,
                   statvars, purge, timer_expires, reader, nevents, pushed>>

\* the flow is in the table
rcv_Update(c) ==
    LET t == ctx[c].tuple IN
    /\ ctx[c].pc = "r_trylock"
    /\ tcp_hash_lock = 0
    /\ tcp_flow_find(t) # 0
    /\ tcp_hash_lock' = c
    /\ LET seen == observed(tcp_hash[t], ctx[c].tstamp, ctx[c].snd_cwnd) IN
       IF interval_elapsed(ctx[c].tstamp, tcp_hash[t].tstamp)
       THEN LET upd == ranked(update_bytes([seen EXCEPT !.tstamp = ctx[c].tstamp],
                                           ctx[c].snd_nxt))
            IN  /\ tcp_hash' = [tcp_hash EXCEPT ![t] = upd]
                /\ ctx' = [ctx EXCEPT ![c].pc = "r_ringlock", ![c].tcp_flow = t,
                                      ![c].cumulative_bytes = upd.cumulative_bytes,
                                      ![c].prev = tcp_hash[t],
                                      ![c].stamp = upd.nproc]
       ELSE /\ tcp_hash' = [tcp_hash EXCEPT ![t] = seen]
            /\ ctx' = [ctx EXCEPT ![c].pc = "r_unlock", ![c].tcp_flow = t,
                                  ![c].prev = tcp_hash[t]]
    /\ UNCHANGED <<life, now, cfgvars, tcp_flow_list, flow_count, probe_lock, ringvars, tail,
                   statvars, purge, timer_expires, reader, nevents, pushed>>

\* mutant: the table lock is dropped as the ring lock is taken
rcv_RingLock_late(c) ==
    /\ ctx[c].pc = "r_ringlock"
    /\ probe_lock = 0
    /\ probe_lock' = c
    /\ tcp_hash_lock' = 0
    /\ Goto(c, "r_write")
    /\ UNCHANGED <<life, now, cfgvars, tablevars, ringvars, tail, statvars,
                   purge, timer_expires, reader, nevents, pushed>>

\* spin_lock(&tcp_probe.lock), tcp_hash_lock still held
rcv_RingLock(c) ==
    /\ ctx[c].pc = "r_ringlock"
    /\ probe_lock = 0
    /\ probe_lock' = c
    /\ Goto(c, "r_write")
    /\ UNCHANGED <<life, now, cfgvars, tablevars, tcp_hash_lock, ringvars, tail, statvars,
                   purge, timer_expires, reader, nevents, pushed>>

rcv_Write(c) ==
    /\ ctx[c].pc = "r_write"
    /\ write_flow(ctx[c].tuple, ctx[c].snd_cwnd, ctx[c].cumulative_bytes, ctx[c].length,
                  tcp_hash[ctx[c].tcp_flow].first_seq_num)
    /\ note_emitted(c)
    /\ probe_lock' = 0
    /\ Goto(c, "r_unlock")
    /\ UNCHANGED <<life, now, cfgvars, tcp_flow_list, flow_count, tcp_hash_lock, tail, statvars,
                   purge, timer_expires, reader, nevents>>

\* mutant: the hook returns with the table lock held
rcv_Unlock_leak(c) ==
    /\ ctx[c].pc = "r_unlock"
    /\ Return(c)
    /\ UNCHANGED <<life, now, cfgvars, tablevars, tcp_hash_lock, probe_lock, ringvars, tail,
                   statvars, purge, timer_expires, reader, nevents, pushed>>

\* spin_unlock(&tcp_hash_lock); skip: return
rcv_Unlock(c) ==
    /\ ctx[c].pc = "r_unlock"
    /\ tcp_hash_lock' = 0
    /\ Return(c)
    /\ UNCHANGED <<life, now, cfgvars, tablevars, probe_lock, ringvars, tail, statvars,
                   purge, timer_expires, reader, nevents, pushed>>

----------------------------------------------------------------------------
(* jtcp_done *)

done_Entry(c, t, snd_nxt, snd_cwnd) ==
    /\ MayEnter(c)
    /\ IF port_match(t)
       THEN ctx' = [ctx EXCEPT ![c] = [IdleCtx EXCEPT !.pc = "d_lock", !.tuple = t,
                                         !.snd_nxt = snd_nxt, !.snd_cwnd = snd_cwnd,
                                         !.tstamp = now]]
       ELSE UNCHANGED ctx
    /\ nevents' = nevents + 1
    /\ UNCHANGED <<life, now, cfgvars, tablevars, tcp_hash_lock, probe_lock, ringvars, tail,
                   statvars, purge, timer_expires, reader, pushed>>

\* spin_lock, then no flow for the tuple
done_NotFound(c) ==
    /\ ctx[c].pc = "d_lock"
    /\ tcp_hash_lock = 0
    /\ tcp_flow_find(ctx[c].tuple) = 0
    /\ tcp_hash_lock' = c
    /\ Goto(c, "d_skip")
    /\ UNCHANGED <<life, now, cfgvars, tablevars, probe_lock, ringvars, tail, statvars,
                   purge, timer_expires, reader, nevents, pushed>>

\* mutant: the skip path returns with the table lock held
done_Skip_locked(c) ==
    /\ ctx[c].pc = "d_skip"
    /\ Return(c)
    /\ UNCHANGED <<life, now, cfgvars, tablevars, tcp_hash_lock, probe_lock, ringvars, tail,
                   statvars, purge, timer_expires, reader, nevents, pushed>>

\* spin_unlock; goto skip
done_Skip(c) ==
    /\ ctx[c].pc = "d_skip"
    /\ tcp_hash_lock' = 0
    /\ Return(c)
    /\ UNCHANGED <<life, now, cfgvars, tablevars, probe_lock, ringvars, tail, statvars,
                   purge, timer_expires, reader, nevents, pushed>>

\* spin_lock, then the flow's last update
done_Found(c) ==
    LET t == ctx[c].tuple IN
    /\ ctx[c].pc = "d_lock"
    /\ tcp_hash_lock = 0
    /\ tcp_flow_find(t) # 0
    /\ tcp_hash_lock' = c
    /\ LET upd == ranked(update_bytes(tcp_hash[t], ctx[c].snd_nxt))
       IN  /\ tcp_hash' = [tcp_hash EXCEPT ![t] = upd]
           /\ ctx' = [ctx EXCEPT ![c].pc = "d_ringlock", ![c].tcp_flow = t,
                                 ![c].cumulative_bytes = upd.cumulative_bytes,
                                 ![c].prev = tcp_hash[t],
                                 ![c].stamp = upd.nproc]
    /\ UNCHANGED <<life, now, cfgvars, tcp_flow_list, flow_count, probe_lock, ringvars, tail,
                   statvars, purge, timer_expires, reader, nevents, pushed>>

done_RingLock(c) ==
    /\ ctx[c].pc = "d_ringlock"
    /\ probe_lock = 0
    /\ probe_lock' = c
    /\ Goto(c, "d_write")
    /\ UNCHANGED <<life, now, cfgvars, tablevars, tcp_hash_lock, ringvars, tail, statvars,
                   purge, timer_expires, reader, nevents, pushed>>

done_Write(c) ==
    /\ ctx[c].pc = "d_write"
    /\ reset_flows' = reset_flows + 1
    /\ write_flow(ctx[c].tuple, ctx[c].snd_cwnd, ctx[c].cumulative_bytes, UINT16_MAX,
                  tcp_hash[ctx[c].tcp_flow].first_seq_num)
    /\ note_emitted(c)
    /\ probe_lock' = 0
    /\ Goto(c, "d_free")
    /\ UNCHANGED <<life, now, cfgvars, tcp_flow_list, flow_count, tcp_hash_lock, tail, ack_drop_purge,
                   conn_maxflow_limit, purge, timer_expires, reader, nevents>>

done_Free(c) ==
    /\ ctx[c].pc = "d_free"
    /\ remove_flows({ctx[c].tcp_flow})
    /\ tcp_hash_lock' = 0
    /\ Return(c)
    /\ UNCHANGED <<life, now, cfgvars, probe_lock, ringvars, tail, statvars,
                   purge, timer_expires, reader, nevents, pushed>>

----------------------------------------------------------------------------
(* purge_timer_run *)

purge_Fire ==
    /\ purge.pc = "idle"
    /\ timer_expires >= 0
    /\ now >= timer_expires
    /\ purge' = [pc |-> "p_lock", tstamp |-> now]
    /\ timer_expires' = -1
    /\ UNCHANGED <<life, now, cfgvars, tablevars, tcp_hash_lock, probe_lock, ringvars, tail,
                   statvars, ctx, reader, nevents, pushed>>

\* mutant: every flow is taken for idle
idle_flows_all(tstamp) == DOMAIN tcp_hash

\* the flows the sweep finds due
idle_flows(tstamp) ==
    {t \in DOMAIN tcp_hash : purge_due(tstamp, tcp_hash[t].tstamp)}

purge_Sweep ==
    /\ purge.pc = "p_lock"
    /\ tcp_hash_lock = 0
    /\ tcp_hash_lock' = PURGE
    /\ remove_flows(idle_flows(purge.tstamp))
    /\ purge' = [purge EXCEPT !.pc = "p_unlock"]
    /\ UNCHANGED <<life, now, cfgvars, probe_lock, ringvars, tail, statvars, ctx,
                   timer_expires, reader, nevents, pushed>>

purge_Unlock ==
    /\ purge.pc = "p_unlock"
    /\ tcp_hash_lock' = 0
    /\ timer_expires' = now + MSEC_PER_SEC * purgetime
    /\ purge' = [pc |-> "idle", tstamp |-> 0]
    /\ UNCHANGED <<life, now, cfgvars, tablevars, probe_lock, ringvars, tail, statvars, ctx,
                   reader, nevents, pushed>>

----------------------------------------------------------------------------
(* The consumer of the ring, and the clock *)

read_Lock ==
    /\ reader = "idle"
    /\ probe_lock = 0
    /\ tcp_probe_used > 0
    /\ probe_lock' = READER
    /\ reader' = "reading"
    /\ UNCHANGED <<life, now, cfgvars, tablevars, tcp_hash_lock, ringvars, tail, statvars, ctx,
                   purge, timer_expires, nevents, pushed>>

read_Drain(k) ==
    /\ reader = "reading"
    /\ k \in 1 .. tcp_probe_used
    /\ tail' = and_mask(tail + k, bufsize)
    /\ probe_lock' = 0
    /\ reader' = "idle"
    /\ UNCHANGED <<life, now, cfgvars, tablevars, tcp_hash_lock, ringvars, statvars, ctx,
                   purge, timer_expires, nevents, pushed>>

Tick(t) ==
    /\ t > now
    /\ now' = t
    /\ UNCHANGED <<life, cfgvars, tablevars, tcp_hash_lock, probe_lock, ringvars, tail, statvars,
                   ctx, purge, timer_expires, reader, nevents, pushed>>

----------------------------------------------------------------------------

\* One hook at a time, the purge timer and the clock
Next ==
    \/ \E t \in Tuples, s \in SndNxtVals, w \in CwndVals, l \in LenVals :
          rcv_Entry(1, t, s, w, l)
    \/ rcv_Gate(1)
    \/ rcv_Skip(1)
    \/ rcv_Reject(1)
    \/ rcv_Create(1)
    \/ rcv_Update(1)
    \/ rcv_RingLock(1)
    \/ rcv_Write(1)
    \/ rcv_Unlock(1)
    \/ \E t \in Tuples, s \in SndNxtVals, w \in CwndVals : done_Entry(1, t, s, w)
    \/ done_NotFound(1)
    \/ done_Skip(1)
    \/ done_Found(1)
    \/ done_RingLock(1)
    \/ done_Write(1)
    \/ done_Free(1)
    \/ purge_Fire
    \/ purge_Sweep
    \/ purge_Unlock
    \/ \E t \in Times : Tick(t)

Spec == Init /\ [][Next]_vars

\* Two hooks at a time, the purge timer, the consumer and the clock; one
\* sequence number and one window, full on
ConcConfigs == {<<TRUE, 0, 3>>, <<TRUE, 1, 2>>}

InitConc == \E cf \in ConcConfigs : InitWith(cf[1], cf[2], cf[3])

NextConc ==
    \/ \E c \in Ctxs :
          \/ \E t \in Tuples : rcv_Entry(c, t, 100, 10, 1000)
          \/ rcv_Gate(c)
          \/ rcv_Skip(c)
          \/ rcv_Reject(c)
          \/ rcv_Create(c)
          \/ rcv_Update(c)
          \/ rcv_RingLock(c)
          \/ rcv_Write(c)
          \/ rcv_Unlock(c)
          \/ \E t \in Tuples : done_Entry(c, t, 100, 10)
          \/ done_NotFound(c)
          \/ done_Skip(c)
          \/ done_Found(c)
          \/ done_RingLock(c)
          \/ done_Write(c)
          \/ done_Free(c)
    \/ purge_Fire
    \/ purge_Sweep
    \/ purge_Unlock
    \/ read_Lock
    \/ \E k \in 1 .. bufsize : read_Drain(k)
    \/ \E t \in Times : Tick(t)

SpecConc == InitConc /\ [][NextConc]_vars

\* every step of a hook after its entry
HookStep(c) ==
    \/ rcv_Gate(c) \/ rcv_Skip(c) \/ rcv_Reject(c) \/ rcv_Create(c) \/ rcv_Update(c)
    \/ rcv_RingLock(c) \/ rcv_Write(c) \/ rcv_Unlock(c)
    \/ done_NotFound(c) \/ done_Skip(c) \/ done_Found(c)
    \/ done_RingLock(c) \/ done_Write(c) \/ done_Free(c)

\* a context that can take a step does not stop for ever: each hook, the
\* timer's handler and the consumer run on a CPU of their own
FairConc ==
    /\ \A c \in Ctxs : WF_vars(HookStep(c))
    /\ WF_vars(purge_Sweep \/ purge_Unlock)
    /\ WF_vars(\E k \in 1 .. bufsize : read_Drain(k))

SpecConcFair == SpecConc /\ FairConc

----------------------------------------------------------------------------
(* tcpprobe_init and tcpprobe_exit *)

\* the module as insmod finds it: nothing allocated, the timer not set up,
\* bufsize as given
InitLoad(f, m, b) ==
    /\ now = 0
    /\ full = f
    /\ maxflows = m
    /\ bufsize = b
    /\ tcp_hash = <<>>
    /\ tcp_flow_list = <<>>
    /\ flow_count = 0
    /\ tcp_hash_lock = 0
    /\ probe_lock = 0
    /\ log = <<>>
    /\ head = 0
    /\ tail = 0
    /\ lastcwnd = 0
    /\ ack_drop_purge = 0
    /\ ack_drop_ring_full = 0
    /\ conn_maxflow_limit = 0
    /\ reset_flows = 0
    /\ ctx = [c \in Ctxs |-> IdleCtx]
    /\ purge = [pc |-> "idle", tstamp |-> 0]
    /\ timer_expires = -1
    /\ reader = "idle"
    /\ nevents = 0
    /\ pushed = <<>>
    /\ life = Unloaded

LifeConfigs == {<<TRUE, 0, 3>>, <<TRUE, 0, 0>>}

InitLife == \E cf \in LifeConfigs : InitLoad(cf[1], cf[2], cf[3])

\* if (bufsize == 0) return -EINVAL
init_Check ==
    /\ life.pc = "init"
    /\ life' = IF bufsize = 0
               THEN [life EXCEPT !.pc = "failed", !.ret = -EINVAL]
               ELSE [life EXCEPT !.pc = "i_step", !.k = 1]
    /\ UNCHANGED <<now, cfgvars, tablevars, tcp_hash_lock, probe_lock, ringvars, tail,
                   statvars, ctx, purge, timer_expires, reader, nevents, pushed>>

\* one step of tcpprobe_init: the allocation or registration succeeds (ok), or
\* fails and jumps to its error label; arming the timer cannot fail
init_Step(ok) ==
    LET r == InitSeq[life.k]
        last == life.k = Len(InitSeq)
    IN  /\ life.pc = "i_step"
        /\ bufsize' = IF r = "log" THEN roundup_pow_of_two(bufsize) ELSE bufsize
        /\ IF ok \/ r = "purge_timer"
           THEN /\ life' = [life EXCEPT !.res = @ \cup {r},
                                        !.k = IF last THEN 0 ELSE @ + 1,
                                        !.pc = IF last THEN "running" ELSE @,
                                        !.ret = 0]
                /\ timer_expires' = IF r = "purge_timer"
                                    THEN now + MSEC_PER_SEC * purgetime
                                    ELSE timer_expires
                /\ log' = IF r = "log"
                          THEN [i \in 0 .. roundup_pow_of_two(bufsize) - 1 |-> ZeroLog]
                          ELSE log
           ELSE /\ life' = [life EXCEPT !.pc = "unwind", !.k = UnwindFrom[r],
                                        !.ret = IF r \in {"tcp_jprobe", "tcp_jprobe_done"}
                                                THEN -EINVAL ELSE -ENOMEM]
                /\ UNCHANGED <<timer_expires, log>>
        /\ UNCHANGED <<now, full, maxflows, tablevars, tcp_hash_lock, probe_lock, head,
                       lastcwnd, ack_drop_ring_full, tail, statvars, ctx, purge, reader,
                       nevents, pushed>>

\* no hook is running: unregister_jprobe returns when the handlers have
HooksIdle == \A c \in Ctxs : ctx[c].pc = "idle"

\* the release of r: unregister_jprobe and del_timer_sync wait for the handler
\* to end, purge_all_flows takes the table lock and frees every flow; a
\* release of what was never created (kfree(NULL)) leaves no trace
Release(r) ==
    /\ r \in {"tcp_jprobe", "tcp_jprobe_done"} => HooksIdle
    /\ r = "purge_timer" => purge.pc = "idle"
    /\ r = "flows" => tcp_hash_lock = 0
    /\ timer_expires' = IF r = "purge_timer" THEN -1 ELSE timer_expires
    /\ IF r = "flows" THEN remove_flows(DOMAIN tcp_hash) ELSE UNCHANGED tablevars
    /\ life' = [life EXCEPT !.res = @ \ {r},
                            !.freed = IF r \in life.res \/ r = "flows"
                                      THEN Append(@, r) ELSE @,
                            !.k = @ + 1]
    /\ UNCHANGED <<now, cfgvars, tcp_hash_lock, probe_lock, ringvars, tail, statvars,
                   ctx, purge, reader, nevents, pushed>>

\* one error label of tcpprobe_init
init_Unwind ==
    /\ life.pc = "unwind"
    /\ life.k <= Len(UnwindSeq)
    /\ Release(UnwindSeq[life.k])

\* err: return ret
init_Fail ==
    /\ life.pc = "unwind"
    /\ life.k > Len(UnwindSeq)
    /\ life' = [life EXCEPT !.pc = "failed"]
    /\ UNCHANGED <<now, cfgvars, tablevars, tcp_hash_lock, probe_lock, ringvars, tail,
                   statvars, ctx, purge, timer_expires, reader, nevents, pushed>>

\* rmmod
exit_Begin ==
    /\ life.pc = "running"
    /\ life' = [life EXCEPT !.pc = "exit", !.k = 1]
    /\ UNCHANGED <<now, cfgvars, tablevars, tcp_hash_lock, probe_lock, ringvars, tail,
                   statvars, ctx, purge, timer_expires, reader, nevents, pushed>>

\* one statement of tcpprobe_exit
exit_Step ==
    /\ life.pc = "exit"
    /\ life.k <= Len(ExitSeq)
    /\ Release(ExitSeq[life.k])

exit_End ==
    /\ life.pc = "exit"
    /\ life.k > Len(ExitSeq)
    /\ life' = [life EXCEPT !.pc = "unloaded"]
    /\ UNCHANGED <<now, cfgvars, tablevars, tcp_hash_lock, probe_lock, ringvars, tail,
                   statvars, ctx, purge, timer_expires, reader, nevents, pushed>>

\* The module from insmod to rmmod: a hook is entered while its jprobe is
\* registered
NextLife ==
    \/ init_Check
    \/ \E ok \in BOOLEAN : init_Step(ok)
    \/ init_Unwind
    \/ init_Fail
    \/ exit_Begin
    \/ exit_Step
    \/ exit_End
    \/ "tcp_jprobe" \in life.res /\ \E t \in Tuples : rcv_Entry(1, t, 100, 10, 1000)
    \/ rcv_Gate(1)
    \/ rcv_Skip(1)
    \/ rcv_Create(1)
    \/ rcv_Update(1)
    \/ rcv_RingLock(1)
    \/ rcv_Write(1)
    \/ rcv_Unlock(1)
    \/ "tcp_jprobe_done" \in life.res /\ \E t \in Tuples : done_Entry(1, t, 100, 10)
    \/ done_NotFound(1)
    \/ done_Skip(1)
    \/ done_Found(1)
    \/ done_RingLock(1)
    \/ done_Write(1)
    \/ done_Free(1)
    \/ purge_Fire
    \/ purge_Sweep
    \/ purge_Unlock
    \/ \E t \in Times : Tick(t)

SpecLife == InitLife /\ [][NextLife]_vars

----------------------------------------------------------------------------
(* Properties *)

Tracked == DOMAIN tcp_hash

\* context c leaves the place pc in this step
Leaves(c, pc) == ctx[c].pc = pc /\ ctx'[c].pc # pc

Kept == DOMAIN tcp_hash \cap DOMAIN tcp_hash'

spec_delta(last, new) ==
    IF new = last THEN 0
    ELSE IF new > last THEN new - last
    ELSE ((UINT32_MAX + 1) - last) + new

\* C3 (as claimed): every update of a tracked flow adds 0, new - last, or
\* (2^32 - last) + new to cumulative_bytes
C3_ClaimedDelta ==
    [][ \A t \in Kept :
          tcp_hash'[t].cumulative_bytes =
             tcp_hash[t].cumulative_bytes
               + spec_delta(tcp_hash[t].last_seq_num, tcp_hash'[t].last_seq_num) ]_vars

\* C4: while a flow state lives its cumulative_bytes never decreases, and each
\* record handed to the ring for it carries at least the cumulative_bytes of
\* the record before
C4_Monotone ==
    [][ /\ \A t \in Kept :
              tcp_hash'[t].cumulative_bytes >= tcp_hash[t].cumulative_bytes
        /\ \A c \in Ctxs :
              (Leaves(c, "r_write") \/ Leaves(c, "d_write"))
              => /\ ctx[c].cumulative_bytes >= tcp_hash[ctx[c].tcp_flow].emitted
                 /\ tcp_probe_avail > 1 => log'[head].snd_nxt = ctx[c].cumulative_bytes ]_vars

\* C4 witness: a record is about to be written for a flow whose sequence
\* number went back (a rollover) since its last record
C4_Witness ==
    \E c \in Ctxs :
       /\ ctx[c].pc \in {"r_write", "d_write"}
       /\ ctx[c].prev.nrec >= 1
       /\ ctx[c].snd_nxt < ctx[c].prev.last_seq_num
       /\ ctx[c].cumulative_bytes > ctx[c].prev.emitted


\* the smaller of two numbers
Min(a, b) == IF a < b THEN a ELSE b

\* the ring, never read, holds exactly the first k records handed to
\* write_flow, and every later one was counted as a drop
RingHoldsFirst(k) ==
    /\ tail = 0
    /\ tcp_probe_used = k
    /\ \A i \in 1 .. k : log[i - 1] = pushed[i]
    /\ ack_drop_ring_full = Len(pushed) - k

\* C2 (as claimed): with no reader, after N pushes into a ring of bufsize
\* slots the ring holds the first min(N, bufsize) records and the drop counter
\* is N - min(N, bufsize)
C2_Original == RingHoldsFirst(Min(Len(pushed), bufsize))

\* C2 (amended): with no reader, after N pushes into a ring of bufsize slots
\* the ring holds the first min(N, bufsize - 1) records, in push order, and
\* the drop counter is N - min(N, bufsize - 1)
C2_RingRetains == RingHoldsFirst(Min(Len(pushed), bufsize - 1))

\* C2 witness: more records were pushed than the ring has slots
C2_Witness ==
    /\ Len(pushed) > bufsize
    /\ tcp_probe_used = bufsize - 1
    /\ ack_drop_ring_full = Len(pushed) - (bufsize - 1)

\* the record write_flow stores for context c's hook, with the given length
RecordOf(c, length) ==
    [tuple |-> ctx[c].tuple, length |-> length, snd_nxt |-> ctx[c].cumulative_bytes,
     snd_cwnd |-> ctx[c].snd_cwnd,
     socket_idf |-> tcp_hash[ctx[c].tcp_flow].first_seq_num]

\* one push: the record is stored at head, or the ring is left alone and the
\* drop is counted
Stored(rec) ==
    /\ log' = [log EXCEPT ![head] = rec]
    /\ head' = (head + 1) % bufsize
    /\ ack_drop_ring_full' = ack_drop_ring_full

Dropped ==
    /\ log' = log
    /\ head' = head
    /\ ack_drop_ring_full' = ack_drop_ring_full + 1

\* the time from the flow's last record (or creation) to context c's observation
SinceEmit(c) == ctx[c].tstamp - ctx[c].prev.tstamp

\* the time from the last observation processed for the flow to context c's
SinceObs(c) == ctx[c].tstamp - ctx[c].prev.obs_ts

\* C5 (as claimed): with full off, an observation that comes less than
\* probetime after the flow's previous observation, with the same snd_cwnd,
\* stores no record
C5_Original ==
    [][ \A c \in Ctxs :
          (Leaves(c, "r_write") /\ ~full /\ ~ctx[c].created /\ tcp_probe_avail > 1)
          => ~(SinceObs(c) < probetime /\ ctx[c].snd_cwnd = ctx[c].prev.obs_cwnd) ]_vars

\* C5 (amended): with full off, an observation of a tracked flow that comes
\* less than probetime after the flow's last record (its creation record
\* included) goes straight to the unlock and hands nothing to the ring
C5_IntervalGate ==
    [][ \A c \in Ctxs :
          /\ ( /\ Leaves(c, "r_trylock")
               /\ tcp_hash_lock = 0
               /\ ctx[c].tuple \in Tracked
               /\ ~full
               /\ ctx[c].tstamp - tcp_hash[ctx[c].tuple].tstamp \in 0 .. probetime - 1 )
             => /\ ctx'[c].pc = "r_unlock"
                /\ UNCHANGED <<log, head, tail, lastcwnd, ack_drop_ring_full>>
          /\ Leaves(c, "r_unlock") => ctx'[c].pc = "idle" /\ UNCHANGED <<log, head, tail>>
          /\ (Leaves(c, "r_write") /\ ~full /\ ~ctx[c].created)
             => SinceEmit(c) \notin 0 .. probetime - 1 ]_vars

\* C5 witness: an observation of a tracked flow, after another observation of
\* it and less than probetime after its last record, is at the unlock
C5_Witness ==
    /\ ~full
    /\ ctx[1].pc = "r_unlock"
    /\ ctx[1].tcp_flow # 0
    /\ ctx[1].prev.obs_ts > ctx[1].prev.tstamp
    /\ SinceEmit(1) \in 0 .. probetime - 1

\* C6 (as claimed): every close of a tracked flow stores one terminal record
C6_Original ==
    [][ \A c \in Ctxs :
          Leaves(c, "d_write") => Stored(RecordOf(c, UINT16_MAX)) ]_vars

\* C6 (amended): a close of a tracked flow, whatever the time since the flow's
\* last record and whatever snd_cwnd, makes exactly one push of a record with
\* length UINT16_MAX (stored, or dropped and counted when the ring has no
\* room), and when the hook returns the flow is in neither the table nor the
\* list
C6_Terminal ==
    [][ \A c \in Ctxs :
          /\ (Leaves(c, "d_lock") /\ ctx[c].tuple \in Tracked)
             => ctx'[c].pc = "d_ringlock" /\ UNCHANGED <<log, head, ack_drop_ring_full>>
          /\ Leaves(c, "d_ringlock")
             => ctx'[c].pc = "d_write" /\ UNCHANGED <<log, head, ack_drop_ring_full>>
          /\ Leaves(c, "d_write")
             => /\ ctx'[c].pc = "d_free"
                /\ reset_flows' = reset_flows + 1
                /\ IF tcp_probe_avail > 1 THEN Stored(RecordOf(c, UINT16_MAX)) ELSE Dropped
          /\ Leaves(c, "d_free")
             => /\ ctx'[c].pc = "idle"
                /\ ctx[c].tcp_flow \notin DOMAIN tcp_hash'
                /\ \A i \in DOMAIN tcp_flow_list' : tcp_flow_list'[i] # ctx[c].tcp_flow
                /\ UNCHANGED <<log, head, ack_drop_ring_full>> ]_vars

\* C6 witness: a close that came less than probetime after the flow's last
\* record, with the snd_cwnd last written, has stored its terminal record
C6_Witness ==
    /\ ~full
    /\ ctx[1].pc = "d_free"
    /\ SinceEmit(1) \in 0 .. probetime - 1
    /\ head > 0
    /\ log[head - 1].length = UINT16_MAX
    /\ log[head - 1].snd_cwnd = log[0].snd_cwnd

C8_Original ==
    [][ \A c \in Ctxs :
          ( /\ Leaves(c, "r_write") \/ Leaves(c, "d_write")
            /\ ~ctx[c].created
            /\ ctx[c].prev.nrec = 1
            /\ ctx[c].snd_nxt > ctx[c].prev.first_seq_num )
          => ctx[c].cumulative_bytes = ctx[c].snd_nxt - ctx[c].prev.first_seq_num ]_vars

\* C9: the sweep removes, from the table and from the list, every flow for
\* which no observation was processed in the purgetime seconds before the
\* sweep read the clock; the flow count follows; when the handler ends the
\* timer is pending again, one period ahead
C9_IdleEvicted ==
    [][ /\ (purge.pc = "p_lock" /\ purge'.pc = "p_unlock")
           => /\ \A t \in Tracked :
                    purge.tstamp - tcp_hash[t].obs_ts >= MSEC_PER_SEC * purgetime
                    => /\ t \notin DOMAIN tcp_hash'
                       /\ \A i \in DOMAIN tcp_flow_list' : tcp_flow_list'[i] # t
              /\ flow_count' = Cardinality(DOMAIN tcp_hash')
        /\ (purge.pc = "p_unlock" /\ purge'.pc = "idle")
           => timer_expires' = now + MSEC_PER_SEC * purgetime
        /\ (timer_expires' >= 0 \/ purge'.pc # "idle") ]_vars

\* C9 witness: a sweep has just ended; the one flow ever created (its record is
\* the only one in the ring) was never closed and is gone
C9_Witness ==
    /\ purge.pc = "p_unlock"
    /\ Tracked = {}
    /\ head = 1
    /\ log[0].length # UINT16_MAX
    /\ reset_flows = 0

\* the steps at which a hook takes, or fails to take, the table lock
HookLockStep(c) ==
    \/ rcv_Skip(c) \/ rcv_Reject(c) \/ rcv_Create(c) \/ rcv_Update(c)
    \/ done_NotFound(c) \/ done_Found(c)

\* C10 (as claimed): neither hook ever waits for the table lock
C10_Original ==
    \A c \in Ctxs : ctx[c].pc \in {"r_trylock", "d_lock"} => ENABLED HookLockStep(c)

\* C10 (amended): jtcp_rcv_established never waits for the table lock: its one
\* attempt always completes, and when the lock is held the hook returns having
\* counted one ack_drop_purge and changed nothing else; jtcp_done takes the
\* lock only when it is free, waits while it is held, and never counts a drop
C10_TryLockOnly ==
    [][ \A c \in Ctxs :
          /\ ctx[c].pc = "r_trylock" => ENABLED HookLockStep(c)
          /\ (Leaves(c, "r_trylock") /\ tcp_hash_lock # 0)
             => /\ ack_drop_purge' = ack_drop_purge + 1
                /\ ctx'[c] = IdleCtx
                /\ UNCHANGED <<tablevars, tcp_hash_lock, probe_lock, ringvars, tail,
                               conn_maxflow_limit, reset_flows>>
          /\ (ctx[c].pc = "d_lock" /\ tcp_hash_lock # 0) => ctx'[c] = ctx[c]
          /\ Leaves(c, "d_lock")
             => /\ tcp_hash_lock = 0
                /\ tcp_hash_lock' = c
                /\ ack_drop_purge' = ack_drop_purge ]_vars

\* C10 witness: an observation was skipped while the sweep held the lock, and
\* a close is waiting for it
C10_Witness ==
    /\ ack_drop_purge >= 1
    /\ tcp_hash_lock = PURGE
    /\ ctx[1].pc = "d_lock"

----------------------------------------------------------------------------
\* C11: a close for a tuple that is not in the table takes the table lock,
\* finds nothing, and returns with the lock released: the ring, the table, the
\* list, flow_count and every counter are as they were
C11_UnknownClose ==
    [][ \A c \in Ctxs :
          /\ (Leaves(c, "d_lock") /\ ctx[c].tuple \notin Tracked)
             => /\ ctx'[c].pc = "d_skip"
                /\ tcp_hash_lock' = c
                /\ UNCHANGED <<tablevars, ringvars, tail, statvars, probe_lock, pushed>>
          /\ Leaves(c, "d_skip")
             => /\ ctx'[c] = IdleCtx
                /\ tcp_hash_lock = c
                /\ tcp_hash_lock' = 0
                /\ UNCHANGED <<tablevars, ringvars, tail, statvars, probe_lock, pushed>> ]_vars

\* C11 witness: a close for an untracked tuple is on its skip path while
\* another flow is in the table
C11_Witness ==
    /\ ctx[1].pc = "d_skip"
    /\ ctx[1].tuple \notin Tracked
    /\ Tracked # {}
    /\ tcp_hash_lock = 1

----------------------------------------------------------------------------
\* the steps at which a hook hands its record to write_flow
Writes(c) == Leaves(c, "r_write") \/ Leaves(c, "d_write")

\* a hook between its decision, under the table lock, to write a record and
\* the write itself
Pending(c) == ctx[c].pc \in {"r_ringlock", "r_write", "d_ringlock", "d_write"}

\* C12: with concurrent hooks, the k-th event of a flow that decided under the
\* table lock to write a record is the k-th to hand its record to write_flow,
\* and the record handed over is that event's; when the close has written its
\* record no earlier event of the flow still has one to write
C12_FlowOrder ==
    [][ \A c \in Ctxs :
          /\ Writes(c)
             => /\ ctx[c].stamp = tcp_hash[ctx[c].tcp_flow].nrec + 1
                /\ pushed' = Append(pushed, RecordOf(c, IF Leaves(c, "d_write")
                                                        THEN UINT16_MAX
                                                        ELSE ctx[c].length))
          /\ Leaves(c, "d_write")
             => /\ ctx[c].stamp = tcp_hash[ctx[c].tcp_flow].nproc
                /\ \A d \in Ctxs \ {c} : ~(Pending(d) /\ ctx[d].tuple = ctx[c].tuple) ]_vars

\* C12 witness: a close has written the second record of a flow while another
\* hook, for the same tuple, is at the table lock
C12_Witness ==
    \E c, d \in Ctxs :
        /\ c # d
        /\ ctx[c].pc = "d_free"
        /\ ctx[c].stamp >= 2
        /\ ctx[d].pc \in {"r_trylock", "d_lock"}
        /\ ctx[d].tuple = ctx[c].tuple
        /\ Len(pushed) >= 2
        /\ pushed[Len(pushed)].length = UINT16_MAX
        /\ pushed[Len(pushed)].tuple = ctx[c].tuple

----------------------------------------------------------------------------
\* the snd_cwnd of the last record handed to write_flow for tuple t
LastCwndOf(t) ==
    LET idx == {i \in DOMAIN pushed : pushed[i].tuple = t}
    IN  IF idx = {} THEN 0
        ELSE pushed[CHOOSE i \in idx : \A j \in idx : j <= i].snd_cwnd

\* the emission rule as claimed, for context c's observation of a tracked flow
ClaimedEmit(c) ==
    \/ full
    \/ /\ ctx[c].snd_cwnd # LastCwndOf(ctx[c].tuple)
       /\ ctx[c].tstamp - tcp_hash[ctx[c].tuple].tstamp >= probetime

\* C13 (as claimed): an observation of a tracked flow writes a record exactly
\* when full is on, or its snd_cwnd differs from the flow's last record and
\* probetime has passed since that record
C13_Original ==
    [][ \A c \in Ctxs :
          /\ (Leaves(c, "r_gate") /\ ctx[c].tuple \in Tracked /\ ctx'[c].pc = "idle")
             => ~ClaimedEmit(c)
          /\ (Leaves(c, "r_trylock") /\ tcp_hash_lock = 0 /\ ctx[c].tuple \in Tracked)
             => (ctx'[c].pc = "r_ringlock" <=> ClaimedEmit(c)) ]_vars

\* C13 (amended): an observation goes on to the table lock exactly when full
\* is on or its snd_cwnd differs from tcp_probe.lastcwnd, the snd_cwnd of the
\* last write_flow call of any flow; having taken the lock and found its flow,
\* it writes one record exactly when probetime has passed since the flow's
\* last record, full on or off
C13_EmitRule ==
    [][ \A c \in Ctxs :
          /\ Leaves(c, "r_gate")
             => IF full \/ ctx[c].snd_cwnd # lastcwnd
                THEN ctx'[c].pc = "r_trylock"
                ELSE ctx'[c] = IdleCtx /\ UNCHANGED <<tablevars, ringvars, pushed>>
          /\ (Leaves(c, "r_trylock") /\ tcp_hash_lock = 0 /\ ctx[c].tuple \in Tracked)
             => IF ctx[c].tstamp - tcp_hash[ctx[c].tuple].tstamp \in 0 .. probetime - 1
                THEN ctx'[c].pc = "r_unlock" /\ UNCHANGED <<ringvars, pushed>>
                ELSE ctx'[c].pc = "r_ringlock"
          /\ Leaves(c, "r_ringlock") => ctx'[c].pc = "r_write"
          /\ Leaves(c, "r_write") => Len(pushed') = Len(pushed) + 1
          /\ Leaves(c, "r_unlock") => UNCHANGED <<ringvars, pushed>> ]_vars

\* C13 witness: full is off; an observation of a tracked flow, probetime after
\* the flow's last record and with a snd_cwnd other than that record's, is at
\* the gate with the snd_cwnd another flow wrote last
C13_Witness ==
    /\ ~full
    /\ ctx[1].pc = "r_gate"
    /\ ctx[1].tuple \in Tracked
    /\ ctx[1].tstamp - tcp_hash[ctx[1].tuple].tstamp >= probetime
    /\ ctx[1].snd_cwnd # LastCwndOf(ctx[1].tuple)
    /\ ctx[1].snd_cwnd = lastcwnd
    /\ pushed[Len(pushed)].tuple # ctx[1].tuple

----------------------------------------------------------------------------
\* C14 (as claimed): no context holds tcp_hash_lock and tcp_probe.lock at the
\* same time
C14_Original ==
    \A c \in Ctxs \cup {PURGE} : ~(tcp_hash_lock = c /\ probe_lock = c)

\* C14 (amended): a hook takes the ring lock only to write its record, while it
\* holds the table lock, and gives the ring lock back, with the write, before
\* the table lock; the purge timer never takes the ring lock
C14_LockNesting ==
    [][ /\ \A c \in Ctxs :
             /\ probe_lock' = c
                => tcp_hash_lock' = c /\ ctx'[c].pc \in {"r_write", "d_write"}
             /\ Writes(c)
                => /\ probe_lock = c
                   /\ probe_lock' = 0
                   /\ tcp_hash_lock' = c
                   /\ Len(pushed') = Len(pushed) + 1
        /\ probe_lock' # PURGE
        /\ purge' # purge => probe_lock' = probe_lock ]_vars

\* C14 witness: a hook holds both locks for its write while the purge timer
\* waits for the table lock
C14_Witness ==
    \E c \in Ctxs :
        /\ tcp_hash_lock = c
        /\ probe_lock = c
        /\ ctx[c].pc = "r_write"
        /\ purge.pc = "p_lock"

----------------------------------------------------------------------------
\* the slots that hold records not yet read
Unread == {(tail + j) % bufsize : j \in 0 .. tcp_probe_used - 1}

\* C15: a push stores its record at head and advances head by one modulo
\* bufsize exactly when at least 2 slots are available, and otherwise leaves
\* head and the array alone and counts one ring-full drop; so, with pushes and
\* reads interleaved, a push never writes a slot not yet read and never brings
\* head round to tail, and a read never takes tail past head
C15_PushRule ==
    [][ /\ \A c \in Ctxs :
             Writes(c)
             => LET rec == RecordOf(c, IF Leaves(c, "d_write") THEN UINT16_MAX
                                       ELSE ctx[c].length)
                IN  /\ IF bufsize - tcp_probe_used >= 2 THEN Stored(rec) ELSE Dropped
                    /\ \A i \in Unread : log'[i] = log[i]
                    /\ head' # tail
                    /\ tail' = tail
        /\ tail' # tail
           => /\ UNCHANGED <<log, head, ack_drop_ring_full>>
              /\ (tail' - tail + bufsize) % bufsize \in 1 .. tcp_probe_used
        /\ (head' # head \/ log' # log \/ ack_drop_ring_full' # ack_drop_ring_full)
           => \E c \in Ctxs : Writes(c) ]_vars

\* C15 witness: records were read, the ring filled again, and a push was dropped
C15_Witness ==
    /\ tail # 0
    /\ tcp_probe_used = bufsize - 1
    /\ ack_drop_ring_full >= 1
    /\ Len(pushed) > bufsize

----------------------------------------------------------------------------
\* context c's hook takes the table lock and finds its flow
Finds(c, pc) == Leaves(c, pc) /\ tcp_hash_lock = 0 /\ ctx[c].tuple \in Tracked

\* C16 (as claimed): every observation processed for a tracked flow leaves
\* last_seq_num at the observation's snd_nxt
C16_Original ==
    [][ \A c \in Ctxs :
          Finds(c, "r_trylock")
          => tcp_hash'[ctx[c].tuple].last_seq_num = ctx[c].snd_nxt ]_vars

\* C16 (amended): last_seq_num and cumulative_bytes are updated by the events
\* that write a record, and by no other: an observation processed under the
\* table lock that writes no record leaves both as they were
C16_UpdateOnWrite ==
    [][ /\ \A c \in Ctxs :
             LET t == ctx[c].tuple IN
             /\ (Finds(c, "r_trylock") /\ ctx'[c].pc = "r_unlock")
                => /\ tcp_hash'[t].last_seq_num = tcp_hash[t].last_seq_num
                   /\ tcp_hash'[t].cumulative_bytes = tcp_hash[t].cumulative_bytes
             /\ ( \/ Finds(c, "r_trylock") /\ ctx'[c].pc = "r_ringlock"
                  \/ Finds(c, "d_lock") )
                => /\ tcp_hash'[t].last_seq_num = ctx[c].snd_nxt
                   /\ tcp_hash'[t].cumulative_bytes =
                         tcp_hash[t].cumulative_bytes
                         + bytes_delta(tcp_hash[t].last_seq_num, ctx[c].snd_nxt)
                   /\ Pending(c)'
        /\ \A t \in Kept :
             ( \/ tcp_hash'[t].last_seq_num # tcp_hash[t].last_seq_num
               \/ tcp_hash'[t].cumulative_bytes # tcp_hash[t].cumulative_bytes )
             => tcp_hash'[t].nproc = tcp_hash[t].nproc + 1 ]_vars

\* C16 witness: an observation with a new snd_nxt was processed for a tracked
\* flow without a record, and the flow's last_seq_num is still the old one
C16_Witness ==
    /\ ctx[1].pc = "r_unlock"
    /\ ctx[1].tcp_flow # 0
    /\ ctx[1].tcp_flow \in Tracked
    /\ tcp_hash[ctx[1].tcp_flow].last_seq_num # ctx[1].snd_nxt
    /\ tcp_hash[ctx[1].tcp_flow].obs_ts = ctx[1].tstamp

----------------------------------------------------------------------------
\* the sweep's step: the list is walked under the table lock
Sweeps == purge.pc = "p_lock" /\ purge'.pc = "p_unlock"

\* C17 (as claimed): a flow for which an observation was processed less than
\* purgetime before the sweep read the clock is in the table after the sweep
C17_Original ==
    [][ Sweeps
        => \A t \in Tracked :
              purge.tstamp - tcp_hash[t].obs_ts < MSEC_PER_SEC * purgetime
              => t \in DOMAIN tcp_hash' ]_vars

\* C17 (amended): the sweep removes a flow only if the flow's tstamp, the time
\* of its last record (or of its creation), is at least purgetime whole seconds
\* behind the clock the sweep read; an observation that writes no record
\* leaves tstamp alone, one that writes a record sets it; a flow whose tstamp
\* is younger is in the table, unchanged, after the sweep
C17_PurgeFromLastRecord ==
    [][ /\ Sweeps
           => \A t \in Tracked :
                 IF purge.tstamp - tcp_hash[t].tstamp < MSEC_PER_SEC * purgetime
                 THEN t \in DOMAIN tcp_hash' /\ tcp_hash'[t] = tcp_hash[t]
                 ELSE t \notin DOMAIN tcp_hash'
        /\ \A c \in Ctxs :
              Finds(c, "r_trylock")
              => /\ tcp_hash'[ctx[c].tuple].obs_ts >= ctx[c].tstamp
                 /\ tcp_hash'[ctx[c].tuple].tstamp =
                       IF ctx'[c].pc = "r_ringlock" THEN ctx[c].tstamp
                       ELSE tcp_hash[ctx[c].tuple].tstamp ]_vars

\* C17 witness: two flows were created and none closed; the sweep has removed
\* one and left the other
C17_Witness ==
    /\ purge.pc = "p_unlock"
    /\ reset_flows = 0
    /\ Len(pushed) = 2
    /\ pushed[1].tuple # pushed[2].tuple
    /\ Cardinality(Tracked) = 1

----------------------------------------------------------------------------
\* tcpprobe_exit is under way or has ended
Exiting == life.pc \in {"exit", "unloaded"}

\* a was released, and b, if released at all, after it
Before(a, b) ==
    \A j \in DOMAIN life.freed :
        life.freed[j] = b => \E i \in 1 .. j - 1 : life.freed[i] = a

\* C18 (as claimed): at shutdown the ring storage and the table storage are
\* released only when the purge timer is stopped and every flow is gone
C18_Original ==
    (Exiting /\ ~({"log", "tcp_flow_cachep", "tcp_hash"} \subseteq life.res))
    => /\ "purge_timer" \notin life.res
       /\ timer_expires < 0
       /\ Tracked = {}
       /\ tcp_flow_list = <<>>

\* C18 (amended): shutdown unregisters the hooks, then frees the ring storage,
\* then stops the purge timer (no sweep runs or is armed afterwards), then
\* frees every flow, leaving the table and the list empty, and only then
\* destroys the flow cache and frees the table; no step writes the ring or the
\* table after its storage is released
C18_ExitOrder ==
    [][ /\ Exiting'
           => /\ Before("tcp_jprobe", "tcp_jprobe_done")'
              /\ Before("tcp_jprobe_done", "log")'
              /\ Before("log", "purge_timer")'
              /\ Before("purge_timer", "flows")'
              /\ Before("flows", "tcp_flow_cachep")'
              /\ Before("tcp_flow_cachep", "tcp_hash")'
              /\ "purge_timer" \notin life'.res
                 => timer_expires' < 0 /\ purge'.pc = "idle"
              /\ "tcp_flow_cachep" \notin life'.res
                 => Tracked' = {} /\ tcp_flow_list' = <<>> /\ flow_count' = 0
        /\ (\E c \in Ctxs : Writes(c)) => "log" \in life.res
        /\ tablevars' # tablevars
           => /\ {"tcp_flow_cachep", "tcp_hash"} \subseteq life.res
              /\ {"tcp_flow_cachep", "tcp_hash"} \subseteq life'.res ]_vars

\* C18 witness: the module is unloaded; a flow was created, never closed, and
\* no sweep can have run: tcpprobe_exit evicted it
C18_Witness ==
    /\ life.pc = "unloaded"
    /\ life.freed = ExitSeq
    /\ Len(pushed) >= 1
    /\ reset_flows = 0
    /\ now < MSEC_PER_SEC * purgetime
    /\ Tracked = {}

\* C19 (as claimed): when tcpprobe_init has failed it has returned an error
\* and nothing is left allocated, registered or scheduled
C19_Original ==
    life.pc = "failed"
    => /\ life.ret < 0
       /\ life.res = {}
       /\ timer_expires < 0
       /\ Tracked = {}
       /\ tcp_flow_list = <<>>
       /\ flow_count = 0

----------------------------------------------------------------------------
\* the holders of the two locks
Holders == Ctxs \cup {PURGE, READER}

====
